---- MODULE Spec2Model ----
(***************************************************************************)
(* Model of sigpyc/sigcontrol.py: the SiGPyC_Controller process            *)
(* supervisor.  The supervisor is single threaded; its position in the     *)
(* start_* method it is executing is pc.  The child processes it spawns    *)
(* with subprocess.Popen run concurrently and exit on their own            *)
(* (ChildExit).  Attribute assignments made by the owner of the object     *)
(* between calls (file_name, run_time, iperf_client_addr) are the Set*     *)
(* actions.  Spec explores the life cycle of the processes with the        *)
(* capture parameters at their defaults; SpecArgs lets file_name and       *)
(* run_time change too, over a smaller process table.  SpecEngine adds     *)
(* start_converter and start_plotter, the methods that use the MATLAB      *)
(* engine.  SpecScan is ants/network_scan.py applied to bounded scan       *)
(* texts.                                                                  *)
(***************************************************************************)
EXTENDS Integers, Sequences, FiniteSets, TLC

\* ------------------------------------------------------------------ bounds
\* size of the process table under Spec and under SpecArgs
MaxProcs == 4
MaxArgProcs == 2
\* size of the process table under SpecLive
MaxLiveProcs == 3
\* size of the process table under SpecEngine
MaxEngineProcs == 2
\* number of "Cell" blocks in a scan text under SpecScan
MaxCells == 3

\* ------------------------------------------------------- values and inputs
None == "<None>"
NoProc == 0
NoCode == << >>
SIGKILL == 9

FileNames == {"", "cap"}
RunTimes == {5, 20}
ClientAddrs == {None, "", "10.0.0.2"}
ExitCodes == {0}

working_dir == "wd"

Kinds == {"usrp", "controller", "iperf_client", "iperf_server"}
Aux == {"iperf_client", "iperf_server"}
Ops == {"start_usrp", "start_controller", "start_usrp_controller",
        "start_usrp_iperf", "start_iperf"}

VARIABLES
    test_mode,
    usrp_proc, controller_proc, iperf_client_proc, iperf_server_proc,
    iperf_client_addr, iperf_rate, iperf_mem_addr,
    iperf_client_args, iperf_server_args,
    usrp_control_args, sg_controller_args,
    run_time, file_name,
    procs,
    pc, op, base, outcome, kills,
    matlab_available, engine_calls, workspace,
    scan_in, scan_out

handles == <<usrp_proc, controller_proc, iperf_client_proc, iperf_server_proc>>
config == <<iperf_client_addr, iperf_rate, iperf_mem_addr, run_time, file_name>>
descriptors == <<iperf_client_args, iperf_server_args, usrp_control_args,
                 sg_controller_args>>
engine == <<matlab_available, engine_calls, workspace>>
scan == <<scan_in, scan_out>>
collab == <<engine, scan>>
vars == <<test_mode, handles, config, descriptors, procs, pc, op, base,
          outcome, kills, collab>>

\* ------------------------------------------------------- python primitives
Digit(d) == <<"0", "1", "2", "3", "4", "5", "6", "7", "8", "9">>[d + 1]

\* str() of the float run_time, held in tenths of a second: 5 is 0.5
FloatStr(t) == Digit(t \div 10) \o "." \o Digit(t % 10)

\* str() of an attribute that is None or a string
PyStr(a) == IF a = None THEN "None" ELSE a

\* variant: the empty string counted as an address
TruthyNotNone(a) == a # None

\* truth value of an attribute that is None or a string
Truthy(a) == a # None /\ a # ""

\* ------------------------------------------------------------- descriptors
SimUsrpArgs == <<"python3", working_dir \o "/tests/usrp_sim.py">>
SimSgArgs == <<"python3", working_dir \o "/tests/sg_sim.py">>
SimClientArgs(addr) ==
    <<"python3", working_dir \o "/tests/iperf_sim.py", PyStr(addr)>>

RealClientArgs(addr, rate, mem) ==
    <<"iperf", "-c", PyStr(addr), "-u", "-b" \o PyStr(rate) \o "M", "-S",
      PyStr(mem), "-t10000000000">>
ServerArgs == <<"iperf", "-s", "-u", "-t100000000000000">>
RealSgArgs(rt) ==
    <<"python3", working_dir \o "/utils/ramp_control.py", FloatStr(rt)>>
InitUsrpArgs(rt) ==
    <<"python", working_dir \o "/utils/writeIQ.py", "123", FloatStr(rt)>>

\* variant: the argument list of construction time
UsrpArgsAtConstruction(fn, rt) == InitUsrpArgs(5)

\* the argument list start_usrp, start_usrp_controller and start_usrp_iperf
\* build before they spawn the capture process
UsrpArgs(fn, rt) ==
    <<"python", working_dir \o "/utils/writeIQ.py", fn, FloatStr(rt)>>

\* --------------------------------------------------------------- processes
\* a Popen object and the OS process behind it.  status is the state of the
\* OS process, returncode is Popen.returncode (NoCode is None).
NewProc(k, a) ==
    [kind |-> k, args |-> a, status |-> "Running", exitcode |-> 0,
     returncode |-> NoCode]

\* Popen.poll(): records the exit status of a process that has ended
Poll(p) ==
    [p EXCEPT !.returncode = IF p.returncode = NoCode /\ p.status # "Running"
                             THEN <<p.exitcode>> ELSE @]

\* variant: no signal is sent
KillNotSent(p) == p

\* Popen.kill(): SIGKILL ends a process that is still running
Kill(p) ==
    IF p.status = "Running"
    THEN [p EXCEPT !.status = "Terminated", !.exitcode = -SIGKILL]
    ELSE p

\* ------------------------------------------------------- the MATLAB engine
\* the engine workspace before start_converter has written to it
NoWorkspace == [fileName |-> None, duration |-> 0]

\* the engine operations the constructor calls
SetupCalls == {"start_matlab", "close", "clear", "genpath", "addpath"}

\* variant: the engine used without the test
MatlabOnAlways == TRUE

\* `if matlab_available == True` in start_converter and start_plotter
MatlabOn == matlab_available = TRUE

\* ------------------------------------------------------------ Wi-Fi scan
\* the result of network_scan before it has run
NoScan == [state |-> "pending", index |-> 0, essid |-> << >>]

\* The output of iwlist is held as the list s.split("Cell") yields: a
\* preamble, then one segment per cell.  A segment is a list of fields, each
\* a key, the characters after it and what follows them.
EssidField(e) == [key |-> "ESSID", val |-> e, unit |-> ""]
LevelField(d) == [key |-> "Signal level", val |-> d, unit |-> "/100"]
DbmField(d) == [key |-> "Signal level", val |-> d, unit |-> " dBm"]

Essids == {<<"A">>, <<"B">>}
LevelTexts == {<<"0">>, <<"1", "0">>, <<"4", "2">>, <<"7", "7">>,
               <<"1", "0", "0">>}

\* a cell block with its level out of 100, with its level in dBm, without one
Segments ==
    {<<EssidField(e), LevelField(d)>> : e \in Essids, d \in LevelTexts}
    \cup {<<EssidField(e), DbmField(<<"5", "2">>)>> : e \in Essids}
    \cup {<<EssidField(e)>> : e \in Essids}

Preamble == << >>

RECURSIVE CellLists(_)
CellLists(n) ==
    IF n = 0 THEN {<< >>}
    ELSE CellLists(n - 1) \cup
         {Append(l, g) : l \in {x \in CellLists(n - 1) : Len(x) = n - 1},
                         g \in Segments}

ScanTexts == {<<Preamble>> \o l : l \in CellLists(MaxCells)}

\* re.search("Signal level=([0-9]{1,3})/100", s): group 1 of the first
\* match, or None (the empty list here)
NoLevel == << >>
RECURSIVE get_level(_)
get_level(a) ==
    IF a = << >> THEN NoLevel
    ELSE IF /\ Head(a).key = "Signal level"
            /\ Len(Head(a).val) \in 1..3
            /\ Head(a).unit = "/100"
         THEN Head(a).val
         ELSE get_level(Tail(a))

\* re.search("ESSID:\"(.*)\"", s): group 1 of the first match, or None
NoEssid == << >>
RECURSIVE get_essid(_)
get_essid(a) ==
    IF a = << >> THEN NoEssid
    ELSE IF Head(a).key = "ESSID" THEN Head(a).val
         ELSE get_essid(Tail(a))

\* one Cell per element of s.split("Cell") but the first
get_cells(arr) ==
    [i \in 1..(Len(arr) - 1) |->
        [essid |-> get_essid(arr[i + 1]), level |-> get_level(arr[i + 1])]]

DigitValue(c) ==
    CASE c = "0" -> 0 [] c = "1" -> 1 [] c = "2" -> 2 [] c = "3" -> 3
      [] c = "4" -> 4 [] c = "5" -> 5 [] c = "6" -> 6 [] c = "7" -> 7
      [] c = "8" -> 8 [] c = "9" -> 9

\* int() of a string of digits
RECURSIVE IntOf(_)
IntOf(d) ==
    IF d = << >> THEN 0
    ELSE 10 * IntOf(SubSeq(d, 1, Len(d) - 1)) + DigitValue(d[Len(d)])

\* the loop of max_cell_level from element i on, then `return arr[index]`.
\* Positions count from 1.  int(None) raises TypeError, arr[0] of an empty
\* list IndexError.
RECURSIVE MaxLoop(_, _, _, _)
MaxLoop(arr, i, mx, index) ==
    IF i > Len(arr)
    THEN IF index > Len(arr)
         THEN [state |-> "fault", index |-> 0, essid |-> NoEssid]
         ELSE [state |-> "returned", index |-> index,
               essid |-> arr[index].essid]
    ELSE IF arr[i].level = NoLevel
         THEN [state |-> "fault", index |-> 0, essid |-> NoEssid]
         ELSE IF IntOf(arr[i].level) > mx
              THEN MaxLoop(arr, i + 1, IntOf(arr[i].level), i)
              ELSE MaxLoop(arr, i + 1, mx, index)

\* variant: `>=` in the comparison
RECURSIVE MaxLoopLast(_, _, _, _)
MaxLoopLast(arr, i, mx, index) ==
    IF i > Len(arr)
    THEN IF index > Len(arr)
         THEN [state |-> "fault", index |-> 0, essid |-> NoEssid]
         ELSE [state |-> "returned", index |-> index,
               essid |-> arr[index].essid]
    ELSE IF arr[i].level = NoLevel
         THEN [state |-> "fault", index |-> 0, essid |-> NoEssid]
         ELSE IF IntOf(arr[i].level) >= mx
              THEN MaxLoopLast(arr, i + 1, IntOf(arr[i].level), i)
              ELSE MaxLoopLast(arr, i + 1, mx, index)

\* variant: `>=` in the comparison of max_cell_level
max_cell_level_last(arr) == MaxLoopLast(arr, 1, 0, 1)

\* variant: an empty list answered with no cell instead of the fault
max_cell_level_guarded(arr) ==
    IF Len(arr) = 0
    THEN [state |-> "returned", index |-> 0, essid |-> NoEssid]
    ELSE MaxLoop(arr, 1, 0, 1)

max_cell_level(arr) == MaxLoop(arr, 1, 0, 1)

\* the import of the module and the constructor
Construct ==
    /\ test_mode \in BOOLEAN
    /\ matlab_available \in BOOLEAN
    /\ engine_calls = IF matlab_available THEN SetupCalls ELSE {}
    /\ workspace = NoWorkspace
    /\ usrp_proc = NoProc
    /\ controller_proc = NoProc
    /\ iperf_client_proc = NoProc
    /\ iperf_server_proc = NoProc
    /\ iperf_client_addr = None
    /\ iperf_rate = None
    /\ iperf_mem_addr = None
    /\ run_time = 5
    /\ file_name = ""
    /\ iperf_server_args = ServerArgs
    /\ iperf_client_args = IF test_mode THEN SimClientArgs(None)
                           ELSE RealClientArgs(None, None, None)
    /\ usrp_control_args = IF test_mode THEN SimUsrpArgs ELSE InitUsrpArgs(5)
    /\ sg_controller_args = IF test_mode THEN SimSgArgs ELSE RealSgArgs(5)
    /\ procs = << >>
    /\ pc = "idle"
    /\ op = "none"
    /\ base = 0
    /\ outcome = "none"
    /\ kills = << >>

Init ==
    /\ Construct
    /\ scan_in = << >>
    /\ scan_out = NoScan

\* ------------------------------------------------------------ control flow
\* first statement of each start_* method
FirstPc(o) ==
    CASE o = "start_usrp" -> "u_spawn"
      [] o = "start_controller" -> "c_spawn"
      [] o = "start_usrp_controller" -> "uc_spawn_usrp"
      [] o = "start_usrp_iperf" -> "ui_client"
      [] o = "start_iperf" -> "i_spawn_client"

\* variant: start_usrp_controller polls before it spawns the controller
NextPcPollFirst(l) ==
    CASE l = "u_spawn" -> "u_wait"
      [] l = "c_spawn" -> "c_wait"
      [] l = "uc_spawn_usrp" -> "uc_poll_usrp"
      [] l = "uc_spawn_ctrl" -> "uc_poll_usrp"
      [] l = "uc_poll_usrp" -> "uc_poll_ctrl"
      [] l = "ui_client" -> "ui_server"
      [] l = "ui_server" -> "ui_usrp"
      [] l = "ui_usrp" -> "ui_poll"
      [] l = "ui_kill_client" -> "ui_kill_server"
      [] l = "i_spawn_client" -> "i_spawn_server"
      [] l = "i_spawn_server" -> "i_poll_client"
      [] l = "i_poll_client" -> "i_poll_server"

\* variant: start_usrp_iperf spawns the capture process before the server
NextPcUsrpFirst(l) ==
    CASE l = "u_spawn" -> "u_wait"
      [] l = "c_spawn" -> "c_wait"
      [] l = "uc_spawn_usrp" -> "uc_spawn_ctrl"
      [] l = "uc_spawn_ctrl" -> "uc_poll_usrp"
      [] l = "uc_poll_usrp" -> "uc_poll_ctrl"
      [] l = "ui_client" -> "ui_usrp"
      [] l = "ui_usrp" -> "ui_server"
      [] l = "ui_server" -> "ui_poll"
      [] l = "ui_kill_client" -> "ui_kill_server"
      [] l = "i_spawn_client" -> "i_spawn_server"
      [] l = "i_spawn_server" -> "i_poll_client"
      [] l = "i_poll_client" -> "i_poll_server"

\* the statement that follows a statement in program order
NextPc(l) ==
    CASE l = "u_spawn" -> "u_wait"
      [] l = "c_spawn" -> "c_wait"
      [] l = "uc_spawn_usrp" -> "uc_spawn_ctrl"
      [] l = "uc_spawn_ctrl" -> "uc_poll_usrp"
      [] l = "uc_poll_usrp" -> "uc_poll_ctrl"
      [] l = "ui_client" -> "ui_server"
      [] l = "ui_server" -> "ui_usrp"
      [] l = "ui_usrp" -> "ui_poll"
      [] l = "ui_kill_client" -> "ui_kill_server"
      [] l = "i_spawn_client" -> "i_spawn_server"
      [] l = "i_spawn_server" -> "i_poll_client"
      [] l = "i_poll_client" -> "i_poll_server"

\* the statements that call subprocess.Popen
SpawnPcs == {"u_spawn", "c_spawn", "uc_spawn_usrp", "uc_spawn_ctrl",
             "ui_client", "ui_server", "ui_usrp",
             "i_spawn_client", "i_spawn_server"}

\* the statements that rebuild usrp_control_args before the Popen call
UsrpSpawnPcs == {"u_spawn", "uc_spawn_usrp", "ui_usrp"}

\* variant: the loop test inverted
PollIsNotNone(p) == Poll(p).returncode # NoCode

\* `while self.usrp_proc.poll() is None` and `while
\* self.controller_proc.poll() is None`: the loop goes on
PollIsNone(p) == Poll(p).returncode = NoCode

\* variant: `or` in place of `and`
EitherDone(a, b) == a.returncode # NoCode \/ b.returncode # NoCode

\* `a.returncode is not None and b.returncode is not None`
BothDone(a, b) == a.returncode # NoCode /\ b.returncode # NoCode

\* variant: the loop left without the test
PrimaryDoneUnchecked(p) == TRUE

\* variant: the test inverted
PrimaryDoneInverted(p) == p.returncode = NoCode

\* `self.usrp_proc.returncode is not None` in start_usrp_iperf
PrimaryDone(p) == p.returncode # NoCode

\* self.<handle>.poll() on the process table; the attribute is still None
\* when no process was ever stored in it, and the call then raises
PollAt(h) == IF h = NoProc THEN procs ELSE [procs EXCEPT ![h] = Poll(@)]

\* variant: the exception swallowed, the method goes on
RaiseSwallowed == pc' = NextPc(pc) /\ UNCHANGED outcome

Return == pc' = "idle" /\ outcome' = "returned"
Raise == pc' = "idle" /\ outcome' = "raised"
Goto(l) == pc' = l /\ UNCHANGED outcome

\* ----------------------------------------------- the owner of the object
SetFileName(f) ==
    /\ pc = "idle"
    /\ f # file_name
    /\ file_name' = f
    /\ UNCHANGED <<collab, test_mode, handles, iperf_client_addr, iperf_rate,
                   iperf_mem_addr, run_time, descriptors, procs, pc, op,
                   base, outcome, kills>>

SetRunTime(t) ==
    /\ pc = "idle"
    /\ t # run_time
    /\ run_time' = t
    /\ UNCHANGED <<collab, test_mode, handles, iperf_client_addr, iperf_rate,
                   iperf_mem_addr, file_name, descriptors, procs, pc, op,
                   base, outcome, kills>>

SetClientAddr(a) ==
    /\ pc = "idle"
    /\ a # iperf_client_addr
    /\ iperf_client_addr' = a
    /\ UNCHANGED <<collab, test_mode, handles, iperf_rate, iperf_mem_addr, run_time,
                   file_name, descriptors, procs, pc, op, base, outcome,
                   kills>>

\* the number of processes a call of the method spawns when no launch fails
Spawns(o) ==
    CASE o \in {"start_usrp", "start_controller"} -> 1
      [] o \in {"start_usrp_controller", "start_iperf"} -> 2
      [] o = "start_usrp_iperf" -> IF Truthy(iperf_client_addr) THEN 3 ELSE 2

\* a call of one of the start_* methods; base is the size of the process
\* table at the call, so that the processes of the call are those above it.
\* max caps the process table.
Begin(o, max) ==
    /\ pc = "idle"
    /\ Len(procs) + Spawns(o) <= max
    /\ base' = Len(procs)
    /\ op' = o
    /\ pc' = FirstPc(o)
    /\ outcome' = "running"
    /\ UNCHANGED <<collab, test_mode, handles, config, descriptors, procs, kills>>

\* ------------------------------------------------------------ environment
\* a child process ends on its own
ChildExit(i, c) ==
    /\ procs[i].status = "Running"
    /\ procs' = [procs EXCEPT ![i].status = "Exited", ![i].exitcode = c]
    /\ UNCHANGED <<collab, test_mode, handles, config, descriptors, pc, op, base,
                   outcome, kills>>

\* subprocess.Popen raises (the executable is missing or cannot be run): the
\* method ends with the exception.  The capture launches have assigned
\* usrp_control_args on the line before.
LaunchFailure ==
    /\ pc \in SpawnPcs
    /\ pc = "ui_client" => Truthy(iperf_client_addr)
    /\ usrp_control_args' = IF pc \in UsrpSpawnPcs
                            THEN UsrpArgs(file_name, run_time)
                            ELSE usrp_control_args
    /\ Raise
    /\ UNCHANGED <<collab, test_mode, handles, config, iperf_client_args,
                   iperf_server_args, sg_controller_args, procs, op, base,
                   kills>>

\* -------------------------------------------------------------- start_usrp
start_usrp_spawn ==
    /\ pc = "u_spawn"
    /\ usrp_control_args' = UsrpArgs(file_name, run_time)
    /\ procs' = Append(procs, NewProc("usrp", usrp_control_args'))
    /\ usrp_proc' = Len(procs) + 1
    /\ Goto(NextPc(pc))
    /\ UNCHANGED <<collab, test_mode, controller_proc, iperf_client_proc,
                   iperf_server_proc, config, iperf_client_args,
                   iperf_server_args, sg_controller_args, op, base, kills>>

start_usrp_wait ==
    /\ pc = "u_wait"
    /\ procs' = PollAt(usrp_proc)
    /\ IF usrp_proc = NoProc THEN Raise
       ELSE IF PollIsNone(procs[usrp_proc]) THEN Goto(pc) ELSE Return
    /\ UNCHANGED <<collab, test_mode, handles, config, descriptors, op, base, kills>>

\* -------------------------------------------------------- start_controller
\* variant: the controller's Popen object stored in usrp_proc
start_controller_spawn_into_usrp ==
    /\ pc = "c_spawn"
    /\ procs' = Append(procs, NewProc("controller", sg_controller_args))
    /\ usrp_proc' = Len(procs) + 1
    /\ Goto(NextPc(pc))
    /\ UNCHANGED <<collab, test_mode, controller_proc, iperf_client_proc,
                   iperf_server_proc, config, descriptors, op, base, kills>>

start_controller_spawn ==
    /\ pc = "c_spawn"
    /\ procs' = Append(procs, NewProc("controller", sg_controller_args))
    /\ controller_proc' = Len(procs) + 1
    /\ Goto(NextPc(pc))
    /\ UNCHANGED <<collab, test_mode, usrp_proc, iperf_client_proc,
                   iperf_server_proc, config, descriptors, op, base, kills>>

start_controller_wait ==
    /\ pc = "c_wait"
    /\ procs' = PollAt(controller_proc)
    /\ IF controller_proc = NoProc THEN Raise
       ELSE IF PollIsNone(procs[controller_proc]) THEN Goto(pc) ELSE Return
    /\ UNCHANGED <<collab, test_mode, handles, config, descriptors, op, base, kills>>

\* --------------------------------------------------- start_usrp_controller
start_usrp_controller_spawn_usrp ==
    /\ pc = "uc_spawn_usrp"
    /\ usrp_control_args' = UsrpArgs(file_name, run_time)
    /\ procs' = Append(procs, NewProc("usrp", usrp_control_args'))
    /\ usrp_proc' = Len(procs) + 1
    /\ Goto(NextPc(pc))
    /\ UNCHANGED <<collab, test_mode, controller_proc, iperf_client_proc,
                   iperf_server_proc, config, iperf_client_args,
                   iperf_server_args, sg_controller_args, op, base, kills>>

start_usrp_controller_spawn_controller ==
    /\ pc = "uc_spawn_ctrl"
    /\ procs' = Append(procs, NewProc("controller", sg_controller_args))
    /\ controller_proc' = Len(procs) + 1
    /\ Goto(NextPc(pc))
    /\ UNCHANGED <<collab, test_mode, usrp_proc, iperf_client_proc,
                   iperf_server_proc, config, descriptors, op, base, kills>>

start_usrp_controller_poll_usrp ==
    /\ pc = "uc_poll_usrp"
    /\ procs' = PollAt(usrp_proc)
    /\ IF usrp_proc = NoProc THEN Raise ELSE Goto(NextPc(pc))
    /\ UNCHANGED <<collab, test_mode, handles, config, descriptors, op, base, kills>>

\* the second poll and the test that ends the loop
start_usrp_controller_poll_controller ==
    /\ pc = "uc_poll_ctrl"
    /\ procs' = PollAt(controller_proc)
    /\ IF controller_proc = NoProc THEN Raise
       ELSE IF BothDone(procs'[usrp_proc], procs'[controller_proc])
            THEN Return ELSE Goto("uc_poll_usrp")
    /\ UNCHANGED <<collab, test_mode, handles, config, descriptors, op, base, kills>>

\* -------------------------------------------------------- start_usrp_iperf
start_usrp_iperf_client ==
    /\ pc = "ui_client"
    /\ IF Truthy(iperf_client_addr)
       THEN /\ procs' = Append(procs, NewProc("iperf_client",
                                              iperf_client_args))
            /\ iperf_client_proc' = Len(procs) + 1
       ELSE UNCHANGED <<procs, iperf_client_proc>>
    /\ Goto(NextPc(pc))
    /\ UNCHANGED <<collab, test_mode, usrp_proc, controller_proc, iperf_server_proc,
                   config, descriptors, op, base, kills>>

start_usrp_iperf_server ==
    /\ pc = "ui_server"
    /\ procs' = Append(procs, NewProc("iperf_server", iperf_server_args))
    /\ iperf_server_proc' = Len(procs) + 1
    /\ Goto(NextPc(pc))
    /\ UNCHANGED <<collab, test_mode, usrp_proc, controller_proc, iperf_client_proc,
                   config, descriptors, op, base, kills>>

start_usrp_iperf_usrp ==
    /\ pc = "ui_usrp"
    /\ usrp_control_args' = UsrpArgs(file_name, run_time)
    /\ procs' = Append(procs, NewProc("usrp", usrp_control_args'))
    /\ usrp_proc' = Len(procs) + 1
    /\ Goto(NextPc(pc))
    /\ UNCHANGED <<collab, test_mode, controller_proc, iperf_client_proc,
                   iperf_server_proc, config, iperf_client_args,
                   iperf_server_args, sg_controller_args, op, base, kills>>

\* the poll of the capture process and the test that ends the loop
start_usrp_iperf_poll ==
    /\ pc = "ui_poll"
    /\ procs' = PollAt(usrp_proc)
    /\ IF usrp_proc = NoProc THEN Raise
       ELSE IF PrimaryDone(procs'[usrp_proc])
            THEN Goto("ui_kill_client") ELSE Goto(pc)
    /\ UNCHANGED <<collab, test_mode, handles, config, descriptors, op, base, kills>>

start_usrp_iperf_kill_client ==
    /\ pc = "ui_kill_client"
    /\ IF Truthy(iperf_client_addr)
       THEN IF iperf_client_proc = NoProc
            THEN Raise /\ UNCHANGED <<procs, kills>>
            ELSE /\ procs' = [procs EXCEPT ![iperf_client_proc] = Kill(@)]
                 /\ kills' = Append(kills, [pid |-> iperf_client_proc,
                                            base |-> base, by |-> op])
                 /\ Goto(NextPc(pc))
       ELSE Goto(NextPc(pc)) /\ UNCHANGED <<procs, kills>>
    /\ UNCHANGED <<collab, test_mode, handles, config, descriptors, op, base>>

\* the kill of the server, then the method returns
start_usrp_iperf_kill_server ==
    /\ pc = "ui_kill_server"
    /\ IF iperf_server_proc = NoProc
       THEN Raise /\ UNCHANGED <<procs, kills>>
       ELSE /\ procs' = [procs EXCEPT ![iperf_server_proc] = Kill(@)]
            /\ kills' = Append(kills, [pid |-> iperf_server_proc,
                                       base |-> base, by |-> op])
            /\ Return
    /\ UNCHANGED <<collab, test_mode, handles, config, descriptors, op, base>>

\* ------------------------------------------------------------- start_iperf
start_iperf_spawn_client ==
    /\ pc = "i_spawn_client"
    /\ procs' = Append(procs, NewProc("iperf_client", iperf_client_args))
    /\ iperf_client_proc' = Len(procs) + 1
    /\ Goto(NextPc(pc))
    /\ UNCHANGED <<collab, test_mode, usrp_proc, controller_proc, iperf_server_proc,
                   config, descriptors, op, base, kills>>

start_iperf_spawn_server ==
    /\ pc = "i_spawn_server"
    /\ procs' = Append(procs, NewProc("iperf_server", iperf_server_args))
    /\ iperf_server_proc' = Len(procs) + 1
    /\ Goto(NextPc(pc))
    /\ UNCHANGED <<collab, test_mode, usrp_proc, controller_proc, iperf_client_proc,
                   config, descriptors, op, base, kills>>

start_iperf_poll_client ==
    /\ pc = "i_poll_client"
    /\ procs' = PollAt(iperf_client_proc)
    /\ IF iperf_client_proc = NoProc THEN Raise ELSE Goto(NextPc(pc))
    /\ UNCHANGED <<collab, test_mode, handles, config, descriptors, op, base, kills>>

\* the second poll and the test that ends the loop
start_iperf_poll_server ==
    /\ pc = "i_poll_server"
    /\ procs' = PollAt(iperf_server_proc)
    /\ IF iperf_server_proc = NoProc THEN Raise
       ELSE IF BothDone(procs'[iperf_client_proc], procs'[iperf_server_proc])
            THEN Return ELSE Goto("i_poll_client")
    /\ UNCHANGED <<collab, test_mode, handles, config, descriptors, op, base, kills>>

\* --------------------------------------------- start_converter, start_plotter
\* the whole method: with the engine it writes fileName and duration to the
\* engine workspace and calls displayTimingInformation, without it it prints
start_converter ==
    /\ pc = "idle"
    /\ IF MatlabOn
       THEN /\ workspace' = [fileName |-> file_name \o ".bin",
                             duration |-> run_time]
            /\ engine_calls' = engine_calls \cup
                                  {"workspace", "displayTimingInformation"}
       ELSE UNCHANGED <<workspace, engine_calls>>
    /\ op' = "start_converter"
    /\ Return
    /\ UNCHANGED <<matlab_available, scan, test_mode, handles, config,
                   descriptors, procs, base, kills>>

\* the whole method: with the engine it calls Load_and_Eval
start_plotter ==
    /\ pc = "idle"
    /\ engine_calls' = IF MatlabOn THEN engine_calls \cup {"Load_and_Eval"}
                       ELSE engine_calls
    /\ op' = "start_plotter"
    /\ Return
    /\ UNCHANGED <<matlab_available, workspace, scan, test_mode, handles,
                   config, descriptors, procs, base, kills>>

\* ------------------------------------------------------------ network_scan
\* the whole function on the output of iwlist: the ESSID of the cell
\* max_cell_level picks, or its fault
network_scan ==
    /\ scan_out.state = "pending"
    /\ scan_out' = max_cell_level(get_cells(scan_in))
    /\ UNCHANGED <<scan_in, engine, test_mode, handles, config, descriptors,
                   procs, pc, op, base, outcome, kills>>

\* ----------------------------------------------------------- specification
\* the statements of the start_* methods and the environment of a call
Step ==
    \/ \E i \in 1..Len(procs) : \E c \in ExitCodes : ChildExit(i, c)
    \/ LaunchFailure
    \/ start_usrp_spawn
    \/ start_usrp_wait
    \/ start_controller_spawn
    \/ start_controller_wait
    \/ start_usrp_controller_spawn_usrp
    \/ start_usrp_controller_spawn_controller
    \/ start_usrp_controller_poll_usrp
    \/ start_usrp_controller_poll_controller
    \/ start_usrp_iperf_client
    \/ start_usrp_iperf_server
    \/ start_usrp_iperf_usrp
    \/ start_usrp_iperf_poll
    \/ start_usrp_iperf_kill_client
    \/ start_usrp_iperf_kill_server
    \/ start_iperf_spawn_client
    \/ start_iperf_spawn_server
    \/ start_iperf_poll_client
    \/ start_iperf_poll_server

\* attribute changes are explored while the process table has room for
\* another call
Next ==
    \/ Len(procs) < MaxProcs /\ \E a \in ClientAddrs : SetClientAddr(a)
    \/ \E o \in Ops : Begin(o, MaxProcs)
    \/ Step

Spec == Init /\ [][Next]_vars

NextArgs ==
    \/ Len(procs) < MaxArgProcs /\ \E f \in FileNames : SetFileName(f)
    \/ Len(procs) < MaxArgProcs /\ \E t \in RunTimes : SetRunTime(t)
    \/ Len(procs) < MaxArgProcs /\ \E a \in ClientAddrs : SetClientAddr(a)
    \/ \E o \in Ops : Begin(o, MaxArgProcs)
    \/ Step

SpecArgs == Init /\ [][NextArgs]_vars

\* the supervisor thread keeps running: the loop of start_usrp_iperf and the
\* kills after it are taken when they are due.  Nothing makes a child exit.
NextLive ==
    \/ Len(procs) < MaxLiveProcs /\ \E a \in ClientAddrs : SetClientAddr(a)
    \/ \E o \in Ops : Begin(o, MaxLiveProcs)
    \/ Step

SpecLive ==
    /\ Init
    /\ [][NextLive]_vars
    /\ WF_vars(start_usrp_iperf_poll)
    /\ WF_vars(start_usrp_iperf_kill_client)
    /\ WF_vars(start_usrp_iperf_kill_server)

NextEngine ==
    \/ Len(procs) < MaxEngineProcs /\ \E f \in FileNames : SetFileName(f)
    \/ Len(procs) < MaxEngineProcs /\ \E t \in RunTimes : SetRunTime(t)
    \/ \E o \in Ops : Begin(o, MaxEngineProcs)
    \/ Step
    \/ start_converter
    \/ start_plotter

SpecEngine == Init /\ [][NextEngine]_vars

\* network_scan on every scan text of up to MaxCells cells; the supervisor
\* is not involved
InitScan ==
    /\ Construct
    /\ ~test_mode /\ ~matlab_available
    /\ scan_in \in ScanTexts
    /\ scan_out = NoScan

NextScan == network_scan

SpecScan == InitScan /\ [][NextScan]_vars

\* ------------------------------------------------------------- properties
\* the processes spawned by the call in progress, or by the last call
CallProcs == (base + 1)..Len(procs)

Returned(o) == pc = "idle" /\ outcome = "returned" /\ op = o

Recorded(h) == h # NoProc /\ procs[h].returncode # NoCode

Running(i) == procs[i].status = "Running"

NoClientAddr == iperf_client_addr \in {None, ""}

\* C1, as claimed: in every state in which the capture process of a
\* start_usrp_iperf call has a recorded exit status, no iperf client or
\* server spawned by that call is Running.
C1_NoAuxRunningOnceRecorded ==
    (op = "start_usrp_iperf" /\ usrp_proc > base /\ Recorded(usrp_proc))
        => \A i \in CallProcs : procs[i].kind \in Aux => ~Running(i)

\* C1, amended: once start_usrp_iperf has returned, having recorded the exit
\* status of its capture process, no iperf client or server spawned by that
\* call is Running.
C1_NoAuxRunningAfterReturn ==
    (Returned("start_usrp_iperf") /\ usrp_proc > base /\ Recorded(usrp_proc))
        => \A i \in CallProcs : procs[i].kind \in Aux => ~Running(i)

C1_Witness ==
    /\ Returned("start_usrp_iperf")
    /\ Recorded(usrp_proc)
    /\ \E i \in CallProcs : \E j \in CallProcs :
          /\ procs[i].kind = "iperf_client" /\ procs[i].status = "Terminated"
          /\ procs[j].kind = "iperf_server" /\ procs[j].status = "Terminated"

\* C2: start_usrp_controller and start_iperf return only when both processes
\* they spawned have a recorded exit status, and neither is still Running.
C2_JointReturnsAfterBoth ==
    /\ Returned("start_usrp_controller") =>
          /\ usrp_proc > base /\ controller_proc > base
          /\ Recorded(usrp_proc) /\ Recorded(controller_proc)
          /\ ~Running(usrp_proc) /\ ~Running(controller_proc)
    /\ Returned("start_iperf") =>
          /\ iperf_client_proc > base /\ iperf_server_proc > base
          /\ Recorded(iperf_client_proc) /\ Recorded(iperf_server_proc)
          /\ ~Running(iperf_client_proc) /\ ~Running(iperf_server_proc)

\* start_iperf has returned after an earlier start_usrp_controller did
C2_Witness ==
    /\ Returned("start_iperf")
    /\ Recorded(iperf_client_proc) /\ Recorded(iperf_server_proc)
    /\ usrp_proc # NoProc /\ controller_proc = usrp_proc + 1
    /\ Recorded(usrp_proc) /\ Recorded(controller_proc)

\* C3: start_usrp and start_controller return only after the process they
\* spawned has a recorded exit status; never while it is Running.
C3_SingleReturnsAfterExit ==
    /\ Returned("start_usrp") =>
          usrp_proc > base /\ Recorded(usrp_proc) /\ ~Running(usrp_proc)
    /\ Returned("start_controller") =>
          /\ controller_proc > base
          /\ Recorded(controller_proc) /\ ~Running(controller_proc)

\* start_controller has returned after an earlier start_usrp did
C3_Witness ==
    /\ Returned("start_controller")
    /\ Recorded(controller_proc)
    /\ usrp_proc # NoProc /\ usrp_proc <= base /\ Recorded(usrp_proc)

\* C4, as claimed: start_usrp_iperf and start_iperf have spawned an iperf
\* client, once past their client launch, if and only if a non-empty client
\* address is configured.
C4_ClientIffAddress ==
    pc \in {"ui_server", "i_spawn_server"} =>
        ((\E i \in CallProcs : procs[i].kind = "iperf_client")
            <=> ~NoClientAddr)

\* C5, as claimed: between calls, at most one process of each job kind is
\* Running.
C5_OneRunningPerKind ==
    pc = "idle" =>
        \A k \in Kinds :
            Cardinality({i \in 1..Len(procs) :
                            procs[i].kind = k /\ Running(i)}) <= 1

\* C6: a kill is issued only by start_usrp_iperf, only on an iperf client or
\* server that this call spawned, and only once the exit status of the
\* call's capture process is recorded; a process leaves Running only by
\* exiting or by such a kill, and no capture or controller process is ever
\* terminated by force.
C6_OnlyAuxKilledAfterPrimary ==
    [][/\ kills' # kills =>
            /\ Len(kills') = Len(kills) + 1
            /\ op = "start_usrp_iperf"
            /\ usrp_proc > base /\ Recorded(usrp_proc)
            /\ kills'[Len(kills')].pid \in CallProcs
            /\ kills'[Len(kills')].pid # usrp_proc
            /\ procs[kills'[Len(kills')].pid].kind \in Aux
       /\ \A i \in 1..Len(procs) :
            procs'[i].status # procs[i].status =>
                /\ procs[i].status = "Running"
                /\ \/ procs'[i].status = "Exited" /\ kills' = kills
                   \/ /\ procs'[i].status = "Terminated"
                      /\ kills' # kills
                      /\ kills'[Len(kills')].pid = i
                      /\ procs[i].kind \in Aux]_vars

C6_Witness ==
    /\ Len(kills) = 2
    /\ \A j \in 1..2 : procs[kills[j].pid].status = "Terminated"
    /\ Recorded(usrp_proc) /\ procs[usrp_proc].status = "Exited"

\* C7: whenever a joint launch is at a poll statement, every process of the
\* call has been spawned: both of start_usrp_controller and of start_iperf,
\* and server, capture and (with an address) client of start_usrp_iperf.
C7_AllSpawnedBeforePoll ==
    /\ pc \in {"uc_poll_usrp", "uc_poll_ctrl"} =>
          usrp_proc > base /\ controller_proc > base
    /\ pc \in {"i_poll_client", "i_poll_server"} =>
          iperf_client_proc > base /\ iperf_server_proc > base
    /\ pc = "ui_poll" =>
          /\ usrp_proc > base /\ iperf_server_proc > base
          /\ ~NoClientAddr => iperf_client_proc > base

\* a poll of start_usrp_controller has recorded one exit, the sibling runs
C7_Witness ==
    /\ pc \in {"uc_poll_usrp", "uc_poll_ctrl"}
    /\ usrp_proc > base /\ controller_proc > base
    /\ Recorded(controller_proc) /\ Running(usrp_proc)

\* the decimal text of the run times of the model
RunTimeText(t) == CASE t = 5 -> "0.5" [] t = 20 -> "2.0"

\* C8: every capture process is spawned with the file_name and run_time the
\* supervisor holds at the spawn.
C8_CaptureArgsCurrent ==
    [][(Len(procs') = Len(procs) + 1 /\ procs'[Len(procs')].kind = "usrp")
          => /\ Len(procs'[Len(procs')].args) = 4
             /\ procs'[Len(procs')].args[3] = file_name
             /\ procs'[Len(procs')].args[4] = RunTimeText(run_time)]_vars

\* two capture processes, spawned around a change of both attributes
C8_Witness ==
    \E i \in 1..Len(procs) : \E j \in 1..Len(procs) :
        /\ i < j
        /\ procs[i].kind = "usrp" /\ procs[j].kind = "usrp"
        /\ procs[i].args[3] = "cap" /\ procs[i].args[4] = "2.0"
        /\ procs[j].args[3] = "" /\ procs[j].args[4] = "0.5"

\* a stand-in script of tests/
IsSimulated(a) ==
    a[2] \in {working_dir \o "/tests/usrp_sim.py",
              working_dir \o "/tests/sg_sim.py",
              working_dir \o "/tests/iperf_sim.py"}

\* C9, as claimed: the mode of construction is kept.  In simulated mode the
\* capture and controller descriptors stay the stand-ins and every capture,
\* controller and client process runs a stand-in; in real mode none does.
C9_ModeFixed ==
    /\ test_mode =>
          /\ IsSimulated(usrp_control_args)
          /\ IsSimulated(sg_controller_args)
          /\ \A i \in 1..Len(procs) :
                procs[i].kind # "iperf_server" => IsSimulated(procs[i].args)
    /\ ~test_mode =>
          /\ ~IsSimulated(usrp_control_args)
          /\ ~IsSimulated(sg_controller_args)
          /\ \A i \in 1..Len(procs) : ~IsSimulated(procs[i].args)

\* C10: a call of start_usrp_iperf with no client address spawns no client
\* and kills nothing but the server it spawned; when it returns it has
\* spawned exactly the server and the capture process and has issued exactly
\* one kill, on that server.
C10_NoAddressServerOnly ==
    [][(op = "start_usrp_iperf" /\ pc # "idle" /\ NoClientAddr) =>
          /\ \A i \in (base + 1)..Len(procs') :
                procs'[i].kind \in {"iperf_server", "usrp"}
          /\ Len(procs') - base <= 2
          /\ \A j \in 1..Len(kills') :
                kills'[j].base = base =>
                    /\ kills'[j].pid = iperf_server_proc
                    /\ kills'[j].pid > base
                    /\ procs'[kills'[j].pid].kind = "iperf_server"
          /\ outcome' = "returned" =>
                /\ Len(procs') = base + 2
                /\ procs'[base + 1].kind = "iperf_server"
                /\ procs'[base + 2].kind = "usrp"
                /\ Cardinality({j \in 1..Len(kills') :
                                   kills'[j].base = base}) = 1
                /\ procs'[base + 1].status # "Running"]_vars

\* the call returned with the client handle of an earlier start_iperf, its
\* process still running, untouched
C10_Witness ==
    /\ Returned("start_usrp_iperf")
    /\ Len(procs) = base + 2
    /\ Len(kills) = 1
    /\ procs[kills[1].pid].kind = "iperf_server"
    /\ procs[kills[1].pid].status = "Terminated"
    /\ iperf_client_proc # NoProc /\ iperf_client_proc <= base
    /\ Running(iperf_client_proc)

\* the launch statements of the composite methods
CompositeSpawnPcs == SpawnPcs \ {"u_spawn", "c_spawn"}

\* C11: when a launch of a composite method fails (the supervisor leaves a
\* Popen statement without a new process), the method ends there with an
\* error: no kill is issued, no poll loop is entered, and the error outcome
\* is never turned into a normal return.
C11_LaunchFailureEndsCall ==
    [][/\ (/\ pc \in CompositeSpawnPcs
           /\ pc' # pc
           /\ Len(procs') = Len(procs)
           /\ pc = "ui_client" => ~NoClientAddr)
          => /\ pc' = "idle"
             /\ outcome' = "raised"
             /\ kills' = kills
             /\ procs' = procs
       /\ outcome = "raised" => outcome' \in {"raised", "running"}
       /\ (outcome = "raised" /\ outcome' = "raised") =>
             (pc' = "idle" /\ Len(procs') = Len(procs) /\ kills' = kills)]_vars

\* start_usrp_iperf ended on the failed launch of its capture process: the
\* client and the server it had spawned run on, unkilled
C11_Witness ==
    /\ pc = "idle" /\ outcome = "raised" /\ op = "start_usrp_iperf"
    /\ Len(procs) = base + 2
    /\ procs[base + 1].kind = "iperf_client" /\ Running(base + 1)
    /\ procs[base + 2].kind = "iperf_server" /\ Running(base + 2)
    /\ kills = << >>

\* C12, as claimed: in real mode every controller process is spawned with
\* the interpreter, the controller script and the run_time the supervisor
\* holds at the spawn.
C12_ControllerArgsCurrent ==
    [][(/\ ~test_mode
        /\ Len(procs') = Len(procs) + 1
        /\ procs'[Len(procs')].kind = "controller")
          => procs'[Len(procs')].args =
                <<"python3", working_dir \o "/utils/ramp_control.py",
                  RunTimeText(run_time)>>]_vars

\* C13, as claimed, for a configured address: every iperf client launched
\* with a non-empty client address is spawned with the client address, rate
\* and memory address the supervisor holds at the spawn.
C13_ClientArgsCurrent ==
    [][(/\ ~NoClientAddr
        /\ Len(procs') = Len(procs) + 1
        /\ procs'[Len(procs')].kind = "iperf_client")
          => /\ procs'[Len(procs')].args[3] = PyStr(iperf_client_addr)
             /\ ~test_mode =>
                   /\ procs'[Len(procs')].args[5] =
                         "-b" \o PyStr(iperf_rate) \o "M"
                   /\ procs'[Len(procs')].args[7] = PyStr(iperf_mem_addr)]_vars

\* position of a job kind in the launch order of start_usrp_iperf
SpawnRank(k) ==
    CASE k = "iperf_client" -> 1 [] k = "iperf_server" -> 2
      [] k = "usrp" -> 3 [] OTHER -> 0

\* C18: the processes of a start_usrp_iperf call are spawned in the order
\* client (when launched), server, capture: when the capture process exists
\* the server and, with an address configured, the client exist already,
\* and nothing is spawned after it.
C18_SpawnOrder ==
    op = "start_usrp_iperf" =>
        /\ \A i \in CallProcs : \A j \in CallProcs :
              i < j => /\ SpawnRank(procs[i].kind) > 0
                       /\ SpawnRank(procs[i].kind) < SpawnRank(procs[j].kind)
        /\ \A i \in CallProcs :
              procs[i].kind = "usrp" =>
                  /\ i = Len(procs)
                  /\ \E j \in CallProcs : procs[j].kind = "iperf_server"
                  /\ (pc # "idle" /\ ~NoClientAddr) =>
                        \E j \in CallProcs : procs[j].kind = "iperf_client"

C18_Witness ==
    /\ op = "start_usrp_iperf" /\ pc = "ui_poll"
    /\ Len(procs) = base + 3
    /\ procs[base + 1].kind = "iperf_client"
    /\ procs[base + 2].kind = "iperf_server"
    /\ procs[base + 3].kind = "usrp"

\* the job kinds a call of the method launches
Launched(o) ==
    CASE o = "start_usrp" -> {"usrp"}
      [] o = "start_controller" -> {"controller"}
      [] o = "start_usrp_controller" -> {"usrp", "controller"}
      [] o = "start_iperf" -> {"iperf_client", "iperf_server"}
      [] o = "start_usrp_iperf" ->
            IF NoClientAddr THEN {"iperf_server", "usrp"}
            ELSE {"iperf_client", "iperf_server", "usrp"}
      [] OTHER -> {}

\* C19: from the call of a start_* method to its end, no step changes
\* file_name, run_time, iperf_client_addr, iperf_rate or iperf_mem_addr, nor
\* the process handle of a job kind the method does not launch.
C19_StartFrame ==
    [][(pc # "idle" \/ pc' # "idle") =>
          /\ file_name' = file_name
          /\ run_time' = run_time
          /\ iperf_client_addr' = iperf_client_addr
          /\ iperf_rate' = iperf_rate
          /\ iperf_mem_addr' = iperf_mem_addr
          /\ "usrp" \notin Launched(op') => usrp_proc' = usrp_proc
          /\ "controller" \notin Launched(op') =>
                controller_proc' = controller_proc
          /\ "iperf_client" \notin Launched(op') =>
                iperf_client_proc' = iperf_client_proc
          /\ "iperf_server" \notin Launched(op') =>
                iperf_server_proc' = iperf_server_proc]_vars

\* start_controller returned under changed attributes, the capture handle of
\* an earlier call still in place
C19_Witness ==
    /\ Returned("start_controller")
    /\ controller_proc > base
    /\ usrp_proc # NoProc /\ usrp_proc <= base
    /\ file_name = "cap" /\ run_time = 20

\* start_usrp_iperf is in its loop and the capture process has ended
PrimaryEnded ==
    /\ op = "start_usrp_iperf" /\ pc = "ui_poll"
    /\ usrp_proc > base /\ ~Running(usrp_proc)

ReturnedAuxStopped ==
    /\ Returned("start_usrp_iperf")
    /\ \A i \in CallProcs : procs[i].kind \in Aux => ~Running(i)

\* C17: once all launches of start_usrp_iperf succeeded and its capture
\* process has ended, the call eventually returns, with no auxiliary of the
\* call Running, whether or not the auxiliaries ever exit on their own.
C17_ReturnsAfterPrimary == PrimaryEnded ~> ReturnedAuxStopped

\* the call returned although its server never exited on its own
C17_Witness ==
    /\ ReturnedAuxStopped
    /\ iperf_server_proc > base
    /\ procs[iperf_server_proc].status = "Terminated"
    /\ procs[usrp_proc].status = "Exited"

EngineMethods == {"start_converter", "start_plotter"}

\* C16: without the MATLAB engine no engine operation is ever called, by the
\* constructor or later, and the engine workspace is never written; a call
\* of start_converter or start_plotter returns normally and changes no
\* process, handle, descriptor or configured attribute.
C16_MissingEngineNoOp ==
    /\ ~matlab_available => (engine_calls = {} /\ workspace = NoWorkspace)
    /\ [][~matlab_available =>
            /\ engine_calls' = {}
            /\ workspace' = NoWorkspace
            /\ (op' \in EngineMethods /\ (op' # op \/ outcome' # outcome))
                  => /\ pc' = "idle" /\ outcome' = "returned"
                     /\ UNCHANGED <<handles, config, descriptors, procs,
                                    kills>>]_vars

\* start_converter returned without the engine, after a capture and a change
\* of file_name
C16_Witness ==
    /\ ~matlab_available
    /\ op = "start_converter" /\ outcome = "returned"
    /\ usrp_proc # NoProc /\ file_name = "cap"
    /\ engine_calls = {}

\* the cells of the scan text
Cells == get_cells(scan_in)

ScanDone == scan_out.state # "pending"

\* the number a level text of the model stands for
LevelValue(d) ==
    CASE d = <<"0">> -> 0 [] d = <<"1", "0">> -> 10 [] d = <<"4", "2">> -> 42
      [] d = <<"7", "7">> -> 77 [] d = <<"1", "0", "0">> -> 100

\* C14: on a non-empty list of cells whose levels all are numbers in
\* 0..100, max_cell_level returns a cell of maximal level, and the first of
\* those in list order.
C14_FirstMaximalCell ==
    (/\ ScanDone
     /\ Len(Cells) > 0
     /\ \A i \in 1..Len(Cells) : Cells[i].level \in LevelTexts)
        => /\ scan_out.state = "returned"
           /\ scan_out.index \in 1..Len(Cells)
           /\ scan_out.essid = Cells[scan_out.index].essid
           /\ \A j \in 1..Len(Cells) :
                 /\ LevelValue(Cells[j].level)
                       <= LevelValue(Cells[scan_out.index].level)
                 /\ j < scan_out.index =>
                       LevelValue(Cells[j].level)
                          < LevelValue(Cells[scan_out.index].level)

\* levels 42, 77, 77: the first of the two cells of level 77 is returned
C14_Witness ==
    /\ ScanDone
    /\ Len(Cells) = 3
    /\ Cells[1].level = <<"4", "2">>
    /\ Cells[2].level = <<"7", "7">>
    /\ Cells[3].level = <<"7", "7">>
    /\ scan_out.state = "returned" /\ scan_out.index = 2

\* C15: on a scan text without cells max_cell_level, and with it
\* network_scan, ends in a fault: no cell, ESSID or other value is returned.
C15_EmptyScanFaults ==
    (ScanDone /\ Len(Cells) = 0)
        => (scan_out.state = "fault" /\ scan_out.index = 0
            /\ scan_out.essid = NoEssid)

C15_Witness ==
    /\ scan_in = <<Preamble>>
    /\ scan_out.state = "fault"

\* C20, as claimed: on every non-empty list of cells get_cells produces,
\* max_cell_level returns an element of the list and does not fault.
C20_NonEmptyScanReturns ==
    (ScanDone /\ Len(Cells) > 0)
        => (scan_out.state = "returned" /\ scan_out.index \in 1..Len(Cells))

TypeOK ==
    /\ test_mode \in BOOLEAN
    /\ pc \in {"idle"} \cup SpawnPcs \cup
             {"u_wait", "c_wait", "uc_poll_usrp", "uc_poll_ctrl", "ui_poll",
              "ui_kill_client", "ui_kill_server", "i_poll_client",
              "i_poll_server"}
    /\ base \in 0..Len(procs)
    /\ \A h \in {usrp_proc, controller_proc, iperf_client_proc,
                 iperf_server_proc} : h \in 0..Len(procs)
    /\ file_name \in FileNames
    /\ run_time \in RunTimes
    /\ iperf_client_addr \in ClientAddrs

====
